---- MODULE Spec2Model ----
(***************************************************************************)
(* Model of the MB Bank transaction scheduler                              *)
(* (src/MB_fastAPI_webhook_like_v2/schedule_module.py and the functions    *)
(* of mb_actions.py, cleaner.py and driver.py it calls).                   *)
(*                                                                         *)
(* Three specifications share the module:                                  *)
(*   SpecPipeline  one fetch / persist / dedup / forward / prune cycle     *)
(*                 after another, on the data directory;                   *)
(*   Spec          the control loop of run_scheduler (session lifecycle);  *)
(*   SpecLogin     the attempt loop of log_in_v2.                          *)
(* Times are seconds since 00:00 of the business day.                      *)
(***************************************************************************)
EXTENDS Integers, Sequences, FiniteSets, TLC

(***************************************************************************)
(* Bounds of the model.                                                    *)
(***************************************************************************)
\* the pipeline starts at 00:StartMinute:00
StartMinute == 5
\* fetch cycles explored by SpecPipeline
MaxCycles == 3
\* rows the bank posts during a run
MaxRows == 2
\* largest MB_LOGIN_MAX_ATTEMPTS explored by SpecLogin
MaxLoginAttempts == 3
\* run_scheduler is followed for MaxClock seconds
MaxClock == 300
\* seconds one pass of the loop takes: time.sleep(0.5) and the work around it
TickSeconds == 5
\* SESSION_RESTART_MINUTES the scheduler is run with (the default is 10)
restart_interval_minutes == 2
\* termination signals delivered to one run
MaxSignals == 1
\* fetch attempts whose write is followed step by step
MaxSaves == 3

(***************************************************************************)
(* Program constants.                                                      *)
(***************************************************************************)
\* run_scheduler: TRANSACTION_FETCH_INTERVAL default
transaction_interval == 20
\* get_from_date_for_fetch: timedelta(minutes=2)
BufferMinutes == 2
\* strftime("%d/%m/%Y %H:%M") keeps minutes: seconds per minute
SecondsPerMinute == 60
\* is_valid_transaction: len(transaction_id) < 5 is too short
MinIdLen == 5
\* Python None for an absent time
None == -1
\* run_scheduler: the health check is due every 10 seconds
HealthCheckSeconds == 10
\* run_scheduler: "for minute in range(3)" around time.sleep(60)
CooldownMinutes == 3
\* run_scheduler: time.sleep(2) after the logout of the recovery
LogoutSleep == 2
\* run_scheduler: time.sleep(5) after the cleanup of the recovery
CleanupSleep == 5
\* run_scheduler: time.sleep(10) in the finally of the recovery
RecoverySleep == 10
\* run_scheduler: after a fetch error the next fetch is due 5 seconds later
RetryAfterError == 5
\* log_in_v2: time.sleep(1) and time.sleep(2) of one attempt, the least time
\* a start of the process takes before its first fetch
LoginSeconds == 3
\* log_in_v2: MB_LOGIN_MAX_ATTEMPTS default
login_max_attempts == 3

(***************************************************************************)
(* Sequence helpers.                                                       *)
(***************************************************************************)
Range(s) == {s[i] : i \in 1..Len(s)}

Reverse(s) == [i \in 1..Len(s) |-> s[Len(s) + 1 - i]]

(***************************************************************************)
(* str.strip() on a cell text, a tuple of characters.                      *)
(***************************************************************************)
RECURSIVE lstrip(_)
lstrip(s) == IF s # <<>> /\ Head(s) = " " THEN lstrip(Tail(s)) ELSE s

RECURSIVE rstrip(_)
rstrip(s) ==
    IF s # <<>> /\ s[Len(s)] = " " THEN rstrip(SubSeq(s, 1, Len(s) - 1)) ELSE s

strip(s) == rstrip(lstrip(s))

(***************************************************************************)
(* The rows the bank's transaction table can show: the text of the         *)
(* identifier cell and of the credit cell.                                 *)
(***************************************************************************)
BankRows ==
    << [id |-> <<"F", "T", "0", "0", "1">>, credit |-> "100"],
       [id |-> <<"F", "T", "1">>, credit |-> "100"],
       [id |-> <<" ">>, credit |-> "100"],
       [id |-> <<"F", "T", "0", "0", "2", " ">>, credit |-> "0"] >>

\* every identifier a persisted transaction can carry
AllIds == {strip(r.id) : r \in Range(BankRows)}

VARIABLES
    clock,                \* wall clock, seconds
    bank,                 \* rows posted by the bank, newest first, with their time
    data_files,           \* data/mb_biz_transactions_*.json
    cycle_pc,             \* position inside the fetch cycle
    cycles,               \* fetch cycles started
    last_cycle_time,      \* last_transaction_fetch_time of the pipeline
    unique_transactions,  \* find_unique_transactions_v2: the list of new transactions
    old_transaction_ids,  \* find_unique_transactions_v2: the identifiers read from old files
    lark_delivered,       \* identifier -> notifications accepted by the channel
    woo_processed,        \* identifier -> calls of process_woo_transaction
    lark_sent,            \* the transactions handed to push_to_Lark_Channel, in order
    woo_results,          \* what the calls of process_woo_transaction of the cycle gave
    save_failed,          \* history: some batch could not be written
    \* log_in_v2
    portal,               \* what the portal answers to attempt 1, 2, ...
    max_attempts,         \* MB_LOGIN_MAX_ATTEMPTS
    attempt,              \* attempts started (the loop index + 1)
    challenges,           \* login pages loaded, each with a new captcha
    login_return,         \* "running", "True", "False" or "raised"
    \* run_scheduler
    pc,                   \* where run_scheduler is
    exit_code,            \* status of sys.exit, None while running
    current_time,         \* time.time() read at the top of the pass
    session_start_time,
    last_health_check,
    last_transaction_fetch_time,
    webdriver_instance,   \* schedule_module.webdriver_instance, 0 for None
    driver,               \* driver.driver, 0 for None
    browsers,             \* the browser sessions that exist on the Selenium hub
    page,                 \* where the current browser is
    processing_transactions,
    recovery_in_progress,
    session_active,       \* check_session(...) is not None, line 851
    minutes_left,         \* passes left of a 3-minute wait loop
    \* history of run_scheduler
    login_calls,          \* log_in_v2 calls of the recovery under way or last ended
    dead_report_time,     \* clock of the last dead health check
    recovery_result,      \* how the last recovery ended
    history,              \* what has happened so far, see InitHistory
    \* the write of one batch, step by step
    writer                \* the data directory and where the write is, see InitSaveVars

store_vars ==
    <<bank, data_files, cycle_pc, cycles, last_cycle_time, unique_transactions,
      old_transaction_ids, lark_delivered, woo_processed, woo_results, lark_sent,
      save_failed>>

pipeline_vars == <<clock, store_vars>>

login_vars == <<portal, max_attempts, attempt, challenges, login_return>>

scheduler_vars ==
    <<pc, exit_code, current_time, session_start_time, last_health_check,
      last_transaction_fetch_time, webdriver_instance, driver, browsers, page,
      processing_transactions, recovery_in_progress, session_active,
      minutes_left, login_calls, dead_report_time, recovery_result, history>>

save_vars == <<writer>>

vars == <<pipeline_vars, login_vars, scheduler_vars, save_vars>>

(***************************************************************************)
(* Batch files and the watermark.                                          *)
(***************************************************************************)
\* strftime("%d/%m/%Y %H:%M") of a time, read back by strptime: the seconds are lost
strftime_minute(t) == (t \div SecondsPerMinute) * SecondsPerMinute

\* current_time.replace(hour=0, minute=0, second=0)
start_of_day(t) == (t \div 86400) * 86400

\* transaction_dt.replace(hour=23, minute=59, second=59)
end_of_day(t) == start_of_day(t) + 86399

\* max(transaction_files, key=os.path.getmtime)
newest_file(files) == CHOOSE f \in files : \A g \in files : g.mtime <= f.mtime

\* the latest "NGÀY GIAO DỊCH" of a non-empty list
latest_transaction_time(txns) ==
    CHOOSE t \in {x.ts : x \in Range(txns)} : \A x \in Range(txns) : x.ts <= t

get_last_fetch_time_from_json ==
    IF data_files = {} THEN None
    ELSE LET data == newest_file(data_files)
         IN  IF data.transactions = <<>> THEN data.timestamp
             ELSE latest_transaction_time(data.transactions)

\* get_from_date_for_fetch without the 2-minute buffer
get_from_date_without_buffer ==
    LET last_transaction_time == get_last_fetch_time_from_json
    IN  IF last_transaction_time # None
        THEN strftime_minute(last_transaction_time)
        ELSE strftime_minute(start_of_day(clock))

get_from_date_for_fetch ==
    LET last_transaction_time == get_last_fetch_time_from_json
    IN  IF last_transaction_time # None
        THEN strftime_minute(last_transaction_time - BufferMinutes * SecondsPerMinute)
        ELSE strftime_minute(start_of_day(clock))

\* one table row -> one transaction, or nothing: the identifier cell is stripped,
\* a row without identifier is skipped, a row before from_date is filtered out
extract_transaction_data(rows, from_date) ==
    LET cells == [i \in 1..Len(rows) |->
                    [id |-> strip(rows[i].id), credit |-> rows[i].credit,
                     ts |-> rows[i].ts]]
    IN  SelectSeq(cells, LAMBDA t : t.id # <<>> /\ t.ts >= from_date)

\* fetch_transactions_v2: the transactions of its result; a result that is None,
\* "error" or "session_expired" carries none
FetchResults == {"success", "session_expired", "error", "none"}

fetch_transactions_v2(result, from_date) ==
    IF result = "success" THEN extract_transaction_data(bank, from_date) ELSE <<>>

\* the file written for a fetch: temp file, then rename onto the name of this second
batch_file(transactions_list) ==
    [timestamp |-> clock, mtime |-> clock,
     status |-> IF transactions_list = <<>> THEN "no_transactions" ELSE "success",
     transactions |-> transactions_list]

\* a save that writes over the batches there are
save_over_existing(transactions_list) == {batch_file(transactions_list)}

save_transactions_to_file(transactions_list) ==
    {f \in data_files : f.timestamp # clock} \cup {batch_file(transactions_list)}

(***************************************************************************)
(* The environment of the pipeline: the bank posts rows, time passes.      *)
(***************************************************************************)
\* the rows appear in the order of BankRows, some of them never
BankPost(n) ==
    /\ cycle_pc = "idle"
    /\ Len(bank) < MaxRows
    /\ \A i \in 1..Len(bank) : bank[i].n < n
    /\ bank' = <<[n |-> n, id |-> BankRows[n].id, credit |-> BankRows[n].credit,
                  ts |-> clock]>> \o bank
    /\ UNCHANGED <<clock, data_files, cycle_pc, cycles, last_cycle_time,
                   unique_transactions, old_transaction_ids, lark_delivered,
                   woo_processed, woo_results, lark_sent, save_failed>>

\* a row whose date cell holds today's date and no time of day: the filter of
\* the fetch and the watermark both read it as 23:59:59 of that day
BankPostDateOnly(n) ==
    /\ cycle_pc = "idle"
    /\ Len(bank) < MaxRows
    /\ \A i \in 1..Len(bank) : bank[i].n < n
    /\ bank' = <<[n |-> n, id |-> BankRows[n].id, credit |-> BankRows[n].credit,
                  ts |-> end_of_day(clock)]>> \o bank
    /\ UNCHANGED <<clock, data_files, cycle_pc, cycles, last_cycle_time,
                   unique_transactions, old_transaction_ids, lark_delivered,
                   woo_processed, woo_results, lark_sent, save_failed>>

Elapse ==
    /\ cycle_pc = "idle"
    /\ cycles > 0
    /\ cycles < MaxCycles
    /\ clock - last_cycle_time < 2 * transaction_interval
    /\ clock' = clock + transaction_interval
    /\ UNCHANGED <<bank, data_files, cycle_pc, cycles, last_cycle_time,
                   unique_transactions, old_transaction_ids, lark_delivered,
                   woo_processed, woo_results, lark_sent, save_failed>>

(***************************************************************************)
(* The fetch cycle: run_scheduler lines 860-873.                           *)
(***************************************************************************)
fetch_due ==
    \/ last_cycle_time = None
    \/ clock - last_cycle_time >= transaction_interval

\* fetch, then persist the batch (an empty marker for a fetch without transactions)
fetch_transactions_with_active_session_v2(result, disk_ok) ==
    /\ cycle_pc = "idle"
    /\ cycles < MaxCycles
    /\ fetch_due
    /\ LET transactions_list == fetch_transactions_v2(result, get_from_date_for_fetch)
       IN  data_files' = IF disk_ok THEN save_transactions_to_file(transactions_list)
                         ELSE data_files
    /\ last_cycle_time' = clock
    /\ cycles' = cycles + 1
    /\ save_failed' = (save_failed \/ ~disk_ok)
    /\ cycle_pc' = "dedup"
    /\ UNCHANGED <<clock, bank, unique_transactions, old_transaction_ids,
                   lark_delivered, woo_processed, woo_results, lark_sent>>

\* identifiers collected from the old files: stripped, empty ones left out
collect_old_ids(old_files) ==
    {strip(t.id) : t \in UNION {Range(f.transactions) : f \in old_files}} \ {<<>>}

\* is_valid_transaction: an identifier of at least MinIdLen characters and an
\* entity or amount cell that is not empty (the scheduler never calls it)
is_valid_transaction(txn) ==
    /\ strip(txn.id) # <<>>
    /\ Len(strip(txn.id)) >= MinIdLen
    /\ txn.credit # ""

\* is_unique without the comparison against the old identifiers
is_unique_no_history(txn, old_ids) == strip(txn.id) # <<>>

\* is_unique that also drops what is_valid_transaction rejects
is_unique_valid_only(txn, old_ids) ==
    /\ is_valid_transaction(txn)
    /\ strip(txn.id) \notin old_ids

\* the test of the loop over the newest file (line 549), negated
is_unique(txn, old_ids) ==
    /\ strip(txn.id) # <<>>
    /\ strip(txn.id) \notin old_ids

\* find_unique_transactions_v2 that cleans the directory before it reads it
find_unique_prunes_first ==
    /\ cycle_pc = "dedup"
    /\ data_files' = IF data_files = {} THEN {} ELSE {newest_file(data_files)}
    /\ cycle_pc' = "idle"
    /\ UNCHANGED <<clock, bank, cycles, last_cycle_time, unique_transactions,
                   old_transaction_ids, lark_delivered, woo_processed, woo_results, lark_sent,
                   save_failed>>

\* find_unique_transactions_v2 up to the list of new transactions
find_unique_transactions_v2 ==
    /\ cycle_pc = "dedup"
    /\ IF data_files = {}
       THEN /\ cycle_pc' = "idle"
            /\ UNCHANGED <<unique_transactions, old_transaction_ids>>
       ELSE LET newest == newest_file(data_files)
                old_ids == collect_old_ids(data_files \ {newest})
                unique == SelectSeq(newest.transactions,
                                    LAMBDA t : is_unique(t, old_ids))
            IN  /\ old_transaction_ids' = old_ids
                /\ unique_transactions' = unique
                /\ cycle_pc' = IF unique # <<>> THEN "push" ELSE "cleanup"
    /\ UNCHANGED <<clock, bank, data_files, cycles, last_cycle_time,
                   lark_delivered, woo_processed, woo_results, lark_sent, save_failed>>

\* push_to_Lark_Channel per transaction: accepted (code 0), refused, or raising
SendResults == {"ok", "fail", "raise"}

\* index of the first send that raises, Len + 1 when none does
RECURSIVE first_raise(_, _)
first_raise(outcomes, i) ==
    IF i > Len(outcomes) THEN i
    ELSE IF outcomes[i] = "raise" THEN i ELSE first_raise(outcomes, i + 1)

\* push_transactions_to_lark_v2 without transactions.reverse()
push_without_reverse(outcomes) ==
    /\ cycle_pc = "push"
    /\ LET transactions == unique_transactions
           stop == first_raise(outcomes, 1)
           accepted == {i \in 1..Len(transactions) : i < stop /\ outcomes[i] = "ok"}
           success_count == Cardinality(accepted)
           raised == stop <= Len(transactions)
       IN  /\ unique_transactions' = IF raised THEN <<>> ELSE transactions
           /\ old_transaction_ids' = IF raised THEN {} ELSE old_transaction_ids
           /\ lark_delivered' =
                  [id \in AllIds |->
                      lark_delivered[id]
                      + Cardinality({i \in accepted : transactions[i].id = id})]
           /\ lark_sent' = SubSeq(transactions, 1,
                                   IF raised THEN stop ELSE Len(transactions))
           /\ cycle_pc' = IF raised THEN "idle"
                          ELSE IF success_count > 0 THEN "woo" ELSE "cleanup"
    /\ UNCHANGED <<clock, bank, data_files, cycles, last_cycle_time, woo_processed,
                   woo_results, save_failed>>

\* push_transactions_to_lark_v2: the list is reversed in place, then sent one by one
push_transactions_to_lark_v2(outcomes) ==
    /\ cycle_pc = "push"
    /\ LET transactions == Reverse(unique_transactions)
           stop == first_raise(outcomes, 1)
           accepted == {i \in 1..Len(transactions) : i < stop /\ outcomes[i] = "ok"}
           success_count == Cardinality(accepted)
           raised == stop <= Len(transactions)
       IN  /\ unique_transactions' = IF raised THEN <<>> ELSE transactions
           /\ old_transaction_ids' = IF raised THEN {} ELSE old_transaction_ids
           /\ lark_delivered' =
                  [id \in AllIds |->
                      lark_delivered[id]
                      + Cardinality({i \in accepted : transactions[i].id = id})]
           /\ lark_sent' = SubSeq(transactions, 1,
                                   IF raised THEN stop ELSE Len(transactions))
           /\ cycle_pc' = IF raised THEN "idle"
                          ELSE IF success_count > 0 THEN "woo" ELSE "cleanup"
    /\ UNCHANGED <<clock, bank, data_files, cycles, last_cycle_time, woo_processed,
                   woo_results, save_failed>>

\* process_woo_transaction per credit transaction: an order created and
\* confirmed, a result that is not a success, or an exception
WooResults == {"success", "error", "raise"}

\* index of the first call that raises, Len + 1 when none does
RECURSIVE first_woo_raise(_, _)
first_woo_raise(results, i) ==
    IF i > Len(results) THEN i
    ELSE IF unique_transactions[i].credit # "0" /\ results[i] = "raise" THEN i
         ELSE first_woo_raise(results, i + 1)

\* process_woocommerce_transactions without the try around the call
process_woocommerce_unguarded(results) ==
    /\ cycle_pc = "woo"
    /\ LET stop == first_woo_raise(results, 1)
           raised == stop <= Len(unique_transactions)
       IN  /\ woo_processed' =
                  [id \in AllIds |->
                      woo_processed[id]
                      + Cardinality({i \in 1..Len(unique_transactions) :
                                       /\ i <= stop
                                       /\ unique_transactions[i].id = id
                                       /\ unique_transactions[i].credit # "0"})]
           /\ woo_results' =
                  [i \in 1..Len(unique_transactions) |->
                      IF unique_transactions[i].credit = "0" \/ i > stop
                      THEN "skip" ELSE results[i]]
           /\ cycle_pc' = IF raised THEN "idle" ELSE "cleanup"
           /\ unique_transactions' = IF raised THEN <<>> ELSE unique_transactions
           /\ old_transaction_ids' = IF raised THEN {} ELSE old_transaction_ids
    /\ UNCHANGED <<clock, bank, data_files, cycles, last_cycle_time,
                   lark_delivered, lark_sent, save_failed>>

\* process_woocommerce_transactions: every transaction whose credit cell is
\* not "0" is handed to process_woo_transaction inside a try of its own
process_woocommerce_transactions(results) ==
    /\ cycle_pc = "woo"
    /\ woo_processed' =
           [id \in AllIds |->
               woo_processed[id]
               + Cardinality({i \in 1..Len(unique_transactions) :
                                /\ unique_transactions[i].id = id
                                /\ unique_transactions[i].credit # "0"})]
    /\ woo_results' =
           [i \in 1..Len(unique_transactions) |->
               IF unique_transactions[i].credit = "0" THEN "skip" ELSE results[i]]
    /\ cycle_pc' = "cleanup"
    /\ UNCHANGED <<clock, bank, data_files, cycles, last_cycle_time,
                   unique_transactions, old_transaction_ids, lark_delivered,
                   lark_sent, save_failed>>

\* cleanup_data_directory() without except_files
cleanup_without_except_files ==
    /\ cycle_pc = "cleanup"
    /\ data_files' = {}
    /\ unique_transactions' = <<>>
    /\ old_transaction_ids' = {}
    /\ cycle_pc' = "idle"
    /\ woo_results' = <<>>
    /\ lark_sent' = <<>>
    /\ UNCHANGED <<clock, bank, cycles, last_cycle_time, lark_delivered, woo_processed,
                   save_failed>>

\* cleanup_data_directory(except_files=[newest_file])
cleanup_data_directory ==
    /\ cycle_pc = "cleanup"
    /\ data_files' = {newest_file(data_files)}
    /\ unique_transactions' = <<>>
    /\ old_transaction_ids' = {}
    /\ cycle_pc' = "idle"
    /\ woo_results' = <<>>
    /\ lark_sent' = <<>>
    /\ UNCHANGED <<clock, bank, cycles, last_cycle_time, lark_delivered, woo_processed,
                   save_failed>>

InitPipelineVars ==
    /\ clock = StartMinute * SecondsPerMinute
    /\ bank = <<>>
    /\ data_files = {}
    /\ cycle_pc = "idle"
    /\ cycles = 0
    /\ last_cycle_time = None
    /\ unique_transactions = <<>>
    /\ old_transaction_ids = {}
    /\ lark_delivered = [id \in AllIds |-> 0]
    /\ woo_processed = [id \in AllIds |-> 0]
    /\ woo_results = <<>>
    /\ lark_sent = <<>>
    /\ save_failed = FALSE

(***************************************************************************)
(* log_in_v2 (mb_actions.py): the attempt loop.  One attempt navigates to  *)
(* the login page, reads the captcha there, submits the form and looks at  *)
(* the result.  What the portal answers:                                   *)
(*   success      a success indicator after the sign-in click              *)
(*   gw715        error dialog GW715, wrong captcha                        *)
(*   gw18         error dialog GW18, account locked                        *)
(*   credential   any other error dialog                                   *)
(*   no_captcha   the captcha image was not found                          *)
(*   no_result    no captcha source or data URL, an error while filling    *)
(*                the form, no error dialog, an error while checking       *)
(*   navigation   driver.get or driver.current_url raises                  *)
(***************************************************************************)
AttemptOutcomes ==
    {"success", "gw715", "gw18", "credential", "no_captcha", "no_result",
     "navigation"}

TransientOutcomes == {"gw715", "no_captcha", "no_result"}

TerminalOutcomes == {"gw18", "credential"}

\* attempt_step with GW715 handled like any other error dialog
attempt_step_gw715_stops(outcome, n, limit) ==
    CASE outcome = "success" -> "True"
      [] outcome \in {"gw715", "gw18", "credential"} -> "False"
      [] outcome = "no_captcha" -> IF n >= limit THEN "False" ELSE "continue"
      [] outcome = "no_result" -> "continue"
      [] outcome = "navigation" -> "raised"

\* attempt_step with every error dialog answered by another attempt
attempt_step_retries_terminal(outcome, n, limit) ==
    CASE outcome = "success" -> "True"
      [] outcome \in {"gw715", "gw18", "credential"} -> "continue"
      [] outcome = "no_captcha" -> IF n - 1 >= limit - 1 THEN "False" ELSE "continue"
      [] outcome = "no_result" -> "continue"
      [] outcome = "navigation" -> "raised"

\* what attempt number n (1-based; the loop index is n - 1) of limit does
attempt_step(outcome, n, limit) ==
    CASE outcome = "success" -> "True"
      [] outcome = "gw715" -> "continue"
      [] outcome \in {"gw18", "credential"} -> "False"
      [] outcome = "no_captcha" -> IF n - 1 >= limit - 1 THEN "False" ELSE "continue"
      [] outcome = "no_result" -> "continue"
      [] outcome = "navigation" -> "raised"

\* one pass of "for attempt in range(max_attempts)"
log_in_v2_attempt ==
    /\ login_return = "running"
    /\ attempt < max_attempts
    /\ attempt' = attempt + 1
    /\ challenges' = challenges + 1
    /\ LET step == attempt_step(portal[attempt + 1], attempt + 1, max_attempts)
       IN  login_return' = IF step = "continue" THEN "running" ELSE step
    /\ UNCHANGED <<portal, max_attempts>>

\* the loop is over: "All attempts exhausted", return False
log_in_v2_exhausted ==
    /\ login_return = "running"
    /\ attempt >= max_attempts
    /\ login_return' = "False"
    /\ UNCHANGED <<portal, max_attempts, attempt, challenges>>

\* log_in_v2 as a function of the portal's answers: what it returns, the
\* attempts it made, and whether it stopped on a terminal error
RECURSIVE log_in_v2_from(_, _, _)
log_in_v2_from(answers, n, limit) ==
    IF n > limit THEN [return |-> "False", attempts |-> limit, terminal |-> FALSE]
    ELSE LET step == attempt_step(answers[n], n, limit)
         IN  IF step = "continue" THEN log_in_v2_from(answers, n + 1, limit)
             ELSE [return |-> step, attempts |-> n,
                   terminal |-> answers[n] \in TerminalOutcomes]

log_in_v2(answers, limit) == log_in_v2_from(answers, 1, limit)

(***************************************************************************)
(* The browser session: driver.py, check_session, shutdown_environment,    *)
(* restart_session.  A driver state is the pair of globals                 *)
(* (schedule_module.webdriver_instance, driver.driver), the browser        *)
(* sessions open on the hub and the page of the current one:               *)
(*   blank    a new browser, nothing loaded                                *)
(*   login    the login page, not signed in                                *)
(*   app      signed in                                                    *)
(*   expired  sent back to the login or session-expired page               *)
(***************************************************************************)
DriverState ==
    [instance |-> webdriver_instance, driver |-> driver, browsers |-> browsers,
     page |-> page]

SetDriverState(d) ==
    /\ webdriver_instance' = d.instance
    /\ driver' = d.driver
    /\ browsers' = d.browsers
    /\ page' = d.page

\* check_session: the session id unless the URL is the login or the
\* session-expired page or the driver cannot be asked
check_session(d) == d.instance # 0 /\ d.page \in {"blank", "app"}

\* a close_driver that forgets the driver and leaves its browser on the hub
close_driver_leaves_browser(d) ==
    IF d.driver # 0 THEN [d EXCEPT !.driver = 0, !.page = "none"] ELSE d

\* driver.close_driver: quit the browser, driver = None
close_driver(d) ==
    IF d.driver # 0
    THEN [d EXCEPT !.browsers = @ \ {d.driver}, !.driver = 0, !.page = "none"]
    ELSE d

\* mb_actions.log_out: the body is "pass"; it logs "Logged out successfully"
\* and leaves the browser and the portal as they are
log_out(d) == d

\* what shutdown_environment does to the session, in order: "logout" when
\* log_out signs the browser out of the portal (it never does), "quit" when
\* close_driver quits the browser
teardown_effects(d) ==
    IF d.instance = 0 THEN <<>>
    ELSE (IF log_out(d).page # d.page THEN <<"logout">> ELSE <<>>)
         \o (IF d.driver # 0 THEN <<"quit">> ELSE <<>>)

\* shutdown_environment: with a webdriver_instance, log out, close the driver
\* and forget the instance
shutdown_environment(d) ==
    IF d.instance # 0 THEN [close_driver(log_out(d)) EXCEPT !.instance = 0] ELSE d

\* initialize_driver: driver.init_driver keeps an existing driver and creates
\* one otherwise; created is whether setup_driver gets a browser
initialize_driver(d, created) ==
    IF d.driver # 0 THEN [d EXCEPT !.instance = d.driver]
    ELSE IF created
         THEN LET id == CHOOSE n \in 1..(Cardinality(d.browsers) + 1) :
                            /\ n \notin d.browsers
                            /\ \A m \in 1..(n - 1) : m \in d.browsers
              IN  [instance |-> id, driver |-> id,
                   browsers |-> d.browsers \cup {id}, page |-> "blank"]
         ELSE [d EXCEPT !.instance = 0]

\* restart_session(): cleanup, new driver, one log_in_v2 call, check_session.
\* result: "True", "False", "raised" (an exception leaves the function) or
\* "exit" (initialize_driver called sys.exit(1)); logins: log_in_v2 calls made;
\* closed: the old browser was quit; made: a new browser was created
restart_session(d, created, login, session_valid, alert_sent) ==
    LET cleaned == IF d.instance # 0 THEN close_driver(d) ELSE d
        fresh == initialize_driver([cleaned EXCEPT !.instance = 0], created)
        closed == d.instance # 0 /\ d.driver # 0
        made == cleaned.driver = 0 /\ fresh.instance # 0
    IN  IF fresh.instance = 0
        THEN [result |-> "exit", d |-> fresh, logins |-> 0,
              closed |-> closed, made |-> made]
        ELSE IF login.return = "True"
        THEN IF session_valid
             THEN [result |-> "True", d |-> [fresh EXCEPT !.page = "app"],
                   logins |-> 1, closed |-> closed, made |-> made]
             ELSE [result |-> "False", d |-> [fresh EXCEPT !.page = "expired"],
                   logins |-> 1, closed |-> closed, made |-> made]
        ELSE IF login.return = "False"
        THEN [result |-> IF alert_sent THEN "False" ELSE "raised",
              d |-> [fresh EXCEPT !.page = "login"], logins |-> 1,
              closed |-> closed, made |-> made]
        ELSE [result |-> "raised", d |-> [fresh EXCEPT !.page = "login"],
              logins |-> 1, closed |-> closed, made |-> made]

\* what a log_in_v2 call can come back with, over all the portal's answers:
\* the value returned and whether the call ended on a terminal failure
LoginResults ==
    {[return |-> log_in_v2(answers, login_max_attempts).return,
      terminal |-> log_in_v2(answers, login_max_attempts).terminal] :
        answers \in [1..login_max_attempts -> AttemptOutcomes]}

\* the history before run_scheduler starts
InitHistory ==
    [terminal_seen |-> FALSE,   \* a log_in_v2 call has ended on a terminal failure
     late_logins |-> 0,         \* log_in_v2 calls made after that
     \* the last restart_session call: who made it, what it did and returned
     last_restart |-> [from |-> "none", result |-> "none", closed |-> FALSE,
                       made |-> FALSE],
     \* clock when "except Exception as loop_error" caught the exception that
     \* is being handled, None when there is none
     error_time |-> None,
     \* the way the process ended, whether push_to_Lark_Channel was called
     \* for it, and what its shutdown_environment did to the session
     exit_path |-> "none", alerted |-> FALSE, teardown |-> <<>>,
     \* the calls made on the session on the way out, in order, and the
     \* termination signals delivered so far
     calls |-> <<>>, signals |-> 0,
     \* clock when the last fetch cycle started, None before the first, and
     \* whether that cycle ended in "except Exception" (line 869)
     fetch_start |-> None, fetch_raised |-> FALSE,
     \* seconds between the starts of the last two fetch cycles, None while
     \* there are not two, and whether the earlier of them raised
     fetch_gap |-> None, after_raise |-> FALSE]

\* a log_in_v2 call has come back with login
note_login(h, login) ==
    [h EXCEPT !.late_logins = IF h.terminal_seen THEN @ + 1 ELSE @,
              !.terminal_seen = @ \/ (login.return = "False" /\ login.terminal)]

\* restart_session, called from the place named by from, has come back with r
note_restart(h, from, r, login) ==
    [(IF r.logins = 1 THEN note_login(h, login) ELSE h)
        EXCEPT !.last_restart = [from |-> from, result |-> r.result,
                                 closed |-> r.closed, made |-> r.made],
               !.error_time = IF from = "scheduled" /\ r.result = "raised"
                              THEN clock ELSE None]

\* the calls shutdown_environment makes on the session, in order
shutdown_calls(d) ==
    IF d.instance # 0 THEN <<"log_out", "close_driver">> ELSE <<>>

\* the process ends on path; d is the session when shutdown_environment is
\* first called
note_exit(h, path, alert, d) ==
    [h EXCEPT !.exit_path = path, !.alerted = alert,
              !.teardown = teardown_effects(d),
              !.calls = shutdown_calls(d)]

\* a failed restart_session call made from the place named by from ends the
\* process: the alert of line 485 is called after a login that returned False
note_restart_exit(h, from, r, login) ==
    note_exit(h,
              CASE r.result = "exit" -> "no_driver"
                [] r.result = "raised" -> "fatal_exception"
                [] OTHER -> from,
              login.return = "False" /\ r.logins = 1,
              r.d)

(***************************************************************************)
(* run_scheduler.                                                          *)
(***************************************************************************)
session_restart_interval == restart_interval_minutes * SecondsPerMinute

RecoveryPcs == {"cooldown", "recovery_teardown", "recovery_init", "recovery_login"}

\* log_in_v2 calls are counted from a dead report on, until the recovery has
\* brought the session back
count_login(n) ==
    IF recovery_result \in {"none", "recovered"} THEN login_calls
    ELSE login_calls + n

\* the process ends with the status of a graceful stop whatever the code
ExitGraceful(code, d) ==
    /\ pc' = "exited"
    /\ exit_code' = 0
    /\ SetDriverState(shutdown_environment(d))

\* the process ends: the finally of run_scheduler shuts the environment down
Exit(code, d) ==
    /\ pc' = "exited"
    /\ exit_code' = code
    /\ SetDriverState(shutdown_environment(d))

\* initialize_driver() at the start
Startup(created) ==
    /\ pc = "start"
    /\ LET d == initialize_driver(DriverState, created)
       IN  IF d.instance = 0
           THEN /\ Exit(1, d)
                /\ history' = note_exit(history, "no_driver", FALSE, d)
           ELSE /\ pc' = "initial_login"
                /\ SetDriverState(d)
                /\ UNCHANGED <<exit_code, history>>
    /\ UNCHANGED <<clock, current_time, session_start_time, last_health_check,
                   last_transaction_fetch_time, processing_transactions,
                   recovery_in_progress, session_active, minutes_left,
                   login_calls, dead_report_time, recovery_result>>

\* the first log_in_v2 call; a failure, or an exception, is fatal
InitialLogin(login) ==
    /\ pc = "initial_login"
    /\ IF login.return = "True"
           THEN /\ pc' = "loop_top"
                /\ session_start_time' = clock
                /\ page' = "app"
                /\ history' = note_login(history, login)
                /\ UNCHANGED <<exit_code, webdriver_instance, driver, browsers>>
           ELSE /\ Exit(1, shutdown_environment(DriverState))
                /\ history' = note_exit(note_login(history, login),
                                        IF login.return = "False"
                                        THEN "initial_login"
                                        ELSE "fatal_exception",
                                        login.return = "False", DriverState)
                /\ UNCHANGED session_start_time
    /\ UNCHANGED <<clock, current_time, last_health_check,
                   last_transaction_fetch_time, processing_transactions,
                   recovery_in_progress, session_active, minutes_left,
                   login_calls, dead_report_time, recovery_result>>

\* the scheduled restart is due at twice the interval
restart_due_late(now) == now - session_start_time >= 2 * session_restart_interval

\* line 761: session_elapsed_time >= session_restart_interval
restart_due(now) == now - session_start_time >= session_restart_interval

\* top of "while True": read the clock; is the scheduled restart due?
LoopTop ==
    /\ pc = "loop_top"
    /\ current_time' = clock
    /\ pc' = IF restart_due(clock) THEN "restart" ELSE "health"
    /\ UNCHANGED <<clock, exit_code, session_start_time, last_health_check,
                   last_transaction_fetch_time, webdriver_instance, driver,
                   browsers, page, processing_transactions,
                   recovery_in_progress, session_active, minutes_left,
                   login_calls, dead_report_time, recovery_result>>
    /\ UNCHANGED history

\* a restart_session() call of the loop body that is made again when it fails
AfterRestartRetries(r, next_pc) ==
    /\ login_calls' = count_login(r.logins)
    /\ pc' = IF r.result = "True" THEN next_pc ELSE "restart"
    /\ session_start_time' = IF r.result = "True" THEN clock ELSE session_start_time
    /\ SetDriverState(r.d)
    /\ UNCHANGED <<exit_code, minutes_left>>

\* what follows a restart_session() call of the loop body
AfterRestart(r, next_pc) ==
    /\ login_calls' = count_login(r.logins)
    /\ CASE r.result = "True" ->
              /\ session_start_time' = clock
              /\ pc' = next_pc
              /\ SetDriverState(r.d)
              /\ UNCHANGED <<exit_code, minutes_left>>
         [] r.result = "raised" ->
              /\ pc' = "error_wait"
              /\ minutes_left' = CooldownMinutes
              /\ SetDriverState(r.d)
              /\ UNCHANGED <<exit_code, session_start_time>>
         [] OTHER ->
              /\ Exit(1, shutdown_environment(r.d))
              /\ UNCHANGED <<session_start_time, minutes_left>>

\* scheduled restart: restart_session(), fatal when it returns False
ScheduledRestart(created, login, session_valid, alert_sent) ==
    /\ pc = "restart"
    /\ LET r == restart_session(DriverState, created, login, session_valid,
                                alert_sent)
           h == note_restart(history, "scheduled", r, login)
       IN  history' = IF r.result \in {"True", "raised"} THEN h
                      ELSE note_restart_exit(h, "scheduled_restart", r, login)
    /\ AfterRestart(restart_session(DriverState, created, login,
                                    session_valid, alert_sent), "health")
    /\ UNCHANGED <<clock, current_time, last_health_check,
                   last_transaction_fetch_time, processing_transactions,
                   recovery_in_progress, session_active, dead_report_time,
                   recovery_result>>

health_check_due ==
    current_time - last_health_check >= HealthCheckSeconds /\ ~recovery_in_progress

HealthNotDue ==
    /\ pc = "health"
    /\ ~health_check_due
    /\ pc' = "fetch_check"
    /\ UNCHANGED <<clock, exit_code, current_time, session_start_time,
                   last_health_check, last_transaction_fetch_time,
                   webdriver_instance, driver, browsers, page,
                   processing_transactions, recovery_in_progress,
                   session_active, minutes_left, login_calls,
                   dead_report_time, recovery_result>>
    /\ UNCHANGED history

HealthAlive ==
    /\ pc = "health"
    /\ health_check_due
    /\ check_session(DriverState)
    /\ last_health_check' = current_time
    /\ pc' = "fetch_check"
    /\ UNCHANGED <<clock, exit_code, current_time, session_start_time,
                   last_transaction_fetch_time, webdriver_instance, driver,
                   browsers, page, processing_transactions,
                   recovery_in_progress, session_active, minutes_left,
                   login_calls, dead_report_time, recovery_result>>
    /\ UNCHANGED history

\* the health check without the wait before the recovery
HealthDeadNoWait ==
    /\ pc = "health"
    /\ health_check_due
    /\ ~check_session(DriverState)
    /\ last_health_check' = current_time
    /\ recovery_in_progress' = TRUE
    /\ minutes_left' = 0
    /\ pc' = "recovery_teardown"
    /\ dead_report_time' = clock
    /\ login_calls' = 0
    /\ recovery_result' = "running"
    /\ UNCHANGED <<clock, exit_code, current_time, session_start_time,
                   last_transaction_fetch_time, webdriver_instance, driver,
                   browsers, page, processing_transactions, session_active>>
    /\ UNCHANGED history

\* the session died: recovery_in_progress, then the 3-minute wait
HealthDead ==
    /\ pc = "health"
    /\ health_check_due
    /\ ~check_session(DriverState)
    /\ last_health_check' = current_time
    /\ recovery_in_progress' = TRUE
    /\ minutes_left' = CooldownMinutes
    /\ pc' = "cooldown"
    /\ dead_report_time' = clock
    /\ login_calls' = 0
    /\ recovery_result' = "running"
    /\ UNCHANGED <<clock, exit_code, current_time, session_start_time,
                   last_transaction_fetch_time, webdriver_instance, driver,
                   browsers, page, processing_transactions, session_active>>
    /\ UNCHANGED history

\* one time.sleep(60) of the wait before the recovery
CooldownSleep ==
    /\ pc = "cooldown"
    /\ clock' = clock + SecondsPerMinute
    /\ minutes_left' = minutes_left - 1
    /\ pc' = IF minutes_left > 1 THEN "cooldown" ELSE "recovery_teardown"
    /\ UNCHANGED <<exit_code, current_time, session_start_time,
                   last_health_check, last_transaction_fetch_time,
                   webdriver_instance, driver, browsers, page,
                   processing_transactions, recovery_in_progress,
                   session_active, login_calls, dead_report_time,
                   recovery_result>>
    /\ UNCHANGED history

\* recovery: log out, close the driver, small delays
RecoveryTeardown ==
    /\ pc = "recovery_teardown"
    /\ IF webdriver_instance # 0
       THEN /\ SetDriverState([close_driver(DriverState) EXCEPT !.instance = 0])
            /\ clock' = clock + LogoutSleep + CleanupSleep
       ELSE /\ clock' = clock + CleanupSleep
            /\ UNCHANGED <<webdriver_instance, driver, browsers, page>>
    /\ pc' = "recovery_init"
    /\ UNCHANGED <<exit_code, current_time, session_start_time,
                   last_health_check, last_transaction_fetch_time,
                   processing_transactions, recovery_in_progress,
                   session_active, minutes_left, login_calls,
                   dead_report_time, recovery_result>>
    /\ UNCHANGED history

\* the finally of the recovery without clearing the flag
RecoveryFinallyKeepsFlag ==
    /\ recovery_in_progress' = recovery_in_progress
    /\ clock' = clock + RecoverySleep

\* the finally of the recovery: the flag is cleared, time.sleep(10)
RecoveryFinally ==
    /\ recovery_in_progress' = FALSE
    /\ clock' = clock + RecoverySleep

\* the recovery failed and tries its login again
RecoveryRetries(result) ==
    /\ pc' = "recovery_login"
    /\ recovery_result' = result
    /\ UNCHANGED <<exit_code, webdriver_instance, driver, browsers, page>>

\* the recovery failed: shutdown_environment, sys.exit(1)
RecoveryFailed(result) ==
    /\ Exit(1, shutdown_environment(DriverState))
    /\ recovery_result' = result

\* recovery: initialize_driver(); sys.exit(1) without a driver
RecoveryInit(created) ==
    /\ pc = "recovery_init"
    /\ LET d == initialize_driver(DriverState, created)
       IN  IF d.instance = 0
           THEN /\ Exit(1, d)
                /\ RecoveryFinally
                /\ recovery_result' = "no_driver"
                /\ history' = note_exit(history, "no_driver", FALSE, d)
           ELSE /\ pc' = "recovery_login"
                /\ SetDriverState(d)
                /\ UNCHANGED <<clock, exit_code, recovery_in_progress,
                               recovery_result, history>>
    /\ UNCHANGED <<current_time, session_start_time, last_health_check,
                   last_transaction_fetch_time, processing_transactions,
                   session_active, minutes_left, login_calls, dead_report_time>>

\* a recovery that goes back to the loop whatever log_in_v2 returned
RecoveryLoginResumes(login) ==
    /\ pc = "recovery_login"
    /\ login_calls' = count_login(1)
    /\ RecoveryFinally
    /\ IF login.return = "True"
           THEN /\ session_start_time' = clock
                /\ page' = "app"
                /\ pc' = "fetch_check"
                /\ recovery_result' = "recovered"
                /\ history' = note_login(history, login)
                /\ UNCHANGED <<exit_code, webdriver_instance, driver, browsers>>
           ELSE /\ pc' = "fetch_check"
                /\ recovery_result' = "login_failed"
                /\ history' = note_login(history, login)
                /\ UNCHANGED <<exit_code, webdriver_instance, driver, browsers,
                               page, session_start_time>>
    /\ UNCHANGED <<current_time, last_health_check,
                   last_transaction_fetch_time, processing_transactions,
                   session_active, minutes_left, dead_report_time>>

\* recovery: the single log_in_v2 call; anything but success is fatal
RecoveryLogin(login) ==
    /\ pc = "recovery_login"
    /\ login_calls' = count_login(1)
    /\ RecoveryFinally
    /\ IF login.return = "True"
           THEN /\ session_start_time' = clock
                /\ page' = "app"
                /\ pc' = "fetch_check"
                /\ recovery_result' = "recovered"
                /\ history' = note_login(history, login)
                /\ UNCHANGED <<exit_code, webdriver_instance, driver, browsers>>
           ELSE /\ RecoveryFailed(IF login.return = "False" THEN "login_failed"
                                   ELSE "login_raised")
                /\ history' = note_exit(note_login(history, login),
                                        IF login.return = "False"
                                        THEN "recovery_failed"
                                        ELSE "recovery_aborted",
                                        login.return = "False", DriverState)
                /\ UNCHANGED session_start_time
    /\ UNCHANGED <<current_time, last_health_check,
                   last_transaction_fetch_time, processing_transactions,
                   session_active, minutes_left, dead_report_time>>

\* a fetch cycle due at every pass
fetch_due_at_every_pass == TRUE

\* line 851-860: is a fetch cycle to be started?
fetch_is_due ==
    \/ last_transaction_fetch_time = None
    \/ current_time - last_transaction_fetch_time >= transaction_interval

\* the guard of the fetch cycle without the session check
fetch_guard_any_session(active) ==
    fetch_is_due /\ ~processing_transactions /\ ~recovery_in_progress

\* the guard of the fetch cycle
fetch_guard(active) ==
    active /\ fetch_is_due /\ ~processing_transactions /\ ~recovery_in_progress

FetchStart ==
    /\ pc = "fetch_check"
    /\ session_active' = check_session(DriverState)
    /\ fetch_guard(session_active')
    /\ last_transaction_fetch_time' = clock
    /\ processing_transactions' = TRUE
    /\ pc' = "fetching"
    /\ UNCHANGED <<clock, exit_code, current_time, session_start_time,
                   last_health_check, webdriver_instance, driver, browsers,
                   page, recovery_in_progress, minutes_left, login_calls,
                   dead_report_time, recovery_result>>
    /\ history' = [history EXCEPT
                      !.fetch_start = clock, !.fetch_raised = FALSE,
                      !.fetch_gap = IF history.fetch_start = None THEN None
                                    ELSE clock - history.fetch_start,
                      !.after_raise = history.fetch_raised]

FetchSkip ==
    /\ pc = "fetch_check"
    /\ session_active' = check_session(DriverState)
    /\ ~fetch_guard(session_active')
    /\ pc' = "sleep"
    /\ UNCHANGED <<clock, exit_code, current_time, session_start_time,
                   last_health_check, last_transaction_fetch_time,
                   webdriver_instance, driver, browsers, page,
                   processing_transactions, recovery_in_progress,
                   minutes_left, login_calls, dead_report_time,
                   recovery_result>>
    /\ UNCHANGED history

\* the fetch cycle without its finally
FetchFinallyKeepsFlag == processing_transactions' = processing_transactions

\* the finally of the fetch cycle
FetchFinally == processing_transactions' = FALSE

\* how a fetch cycle can end: with a result of fetch_transactions_v2, or
\* "raised" when an exception left fetch_transactions_with_active_session_v2
\* or find_unique_transactions_v2
FetchOutcomes == FetchResults \cup {"raised"}

\* fetch_transactions_v2 reports session_expired when the browser is on the
\* login page, and can succeed only while signed in
fetch_possible(result) ==
    /\ result = "session_expired" => page \in {"login", "expired"}
    /\ result = "success" => page = "app"

\* the fetch cycle (SpecPipeline follows it on the data directory)
FetchCycle(result) ==
    /\ pc = "fetching"
    /\ fetch_possible(result)
    /\ last_transaction_fetch_time' =
           IF result = "raised"
           THEN clock - (transaction_interval - RetryAfterError)
           ELSE clock
    /\ FetchFinally
    /\ pc' = "sleep"
    /\ UNCHANGED <<clock, exit_code, current_time, session_start_time,
                   last_health_check, webdriver_instance, driver, browsers,
                   page, recovery_in_progress, session_active, minutes_left,
                   login_calls, dead_report_time, recovery_result>>
    /\ history' = [history EXCEPT !.fetch_raised = (result = "raised")]

\* time.sleep(0.5) at the end of the pass
LoopSleep ==
    /\ pc = "sleep"
    /\ clock - StartMinute * SecondsPerMinute < MaxClock
    /\ clock' = clock + TickSeconds
    /\ pc' = "loop_top"
    /\ UNCHANGED <<exit_code, current_time, session_start_time,
                   last_health_check, last_transaction_fetch_time,
                   webdriver_instance, driver, browsers, page,
                   processing_transactions, recovery_in_progress,
                   session_active, minutes_left, login_calls,
                   dead_report_time, recovery_result>>
    /\ UNCHANGED history

\* the handler of loop_error without its wait
ErrorWaitSkipped ==
    /\ pc = "error_wait"
    /\ pc' = "error_recovery"
    /\ minutes_left' = 0
    /\ UNCHANGED <<clock, exit_code, current_time, session_start_time,
                   last_health_check, last_transaction_fetch_time,
                   webdriver_instance, driver, browsers, page,
                   processing_transactions, recovery_in_progress,
                   session_active, login_calls, dead_report_time,
                   recovery_result, history>>

\* "except Exception as loop_error": one time.sleep(60) of its wait
ErrorWait ==
    /\ pc = "error_wait"
    /\ clock' = clock + SecondsPerMinute
    /\ minutes_left' = minutes_left - 1
    /\ pc' = IF minutes_left > 1 THEN "error_wait" ELSE "error_recovery"
    /\ UNCHANGED <<exit_code, current_time, session_start_time,
                   last_health_check, last_transaction_fetch_time,
                   webdriver_instance, driver, browsers, page,
                   processing_transactions, recovery_in_progress,
                   session_active, login_calls, dead_report_time,
                   recovery_result>>
    /\ UNCHANGED history

\* "except Exception as loop_error": restart_session() unless a recovery is
\* in progress; an exception here reaches the outer handler and is fatal
ErrorRecovery(created, login, session_valid, alert_sent) ==
    /\ pc = "error_recovery"
    /\ IF recovery_in_progress
       THEN /\ pc' = "loop_top"
            /\ UNCHANGED <<exit_code, session_start_time, webdriver_instance,
                           driver, browsers, page, minutes_left, login_calls,
                           history>>
       ELSE LET r == restart_session(DriverState, created, login,
                                     session_valid, alert_sent)
            IN  /\ login_calls' = count_login(r.logins)
                /\ history' =
                       IF r.result = "True"
                       THEN note_restart(history, "loop_error", r, login)
                       ELSE note_restart_exit(
                                note_restart(history, "loop_error", r, login),
                                "loop_error_recovery", r, login)
                /\ UNCHANGED minutes_left
                /\ IF r.result = "True"
                   THEN /\ session_start_time' = clock
                        /\ pc' = "loop_top"
                        /\ SetDriverState(r.d)
                        /\ UNCHANGED exit_code
                   ELSE /\ Exit(1, shutdown_environment(r.d))
                        /\ UNCHANGED session_start_time
    /\ UNCHANGED <<clock, current_time, last_health_check,
                   last_transaction_fetch_time, processing_transactions,
                   recovery_in_progress, session_active, dead_report_time,
                   recovery_result>>

\* the portal ends the session: the browser lands on the login page
SessionExpires ==
    /\ pc \notin {"start", "initial_login", "exited"}
    /\ page = "app"
    /\ page' = "expired"
    /\ UNCHANGED <<clock, pc, exit_code, current_time, session_start_time,
                   last_health_check, last_transaction_fetch_time,
                   webdriver_instance, driver, browsers,
                   processing_transactions, recovery_in_progress,
                   session_active, minutes_left, login_calls,
                   dead_report_time, recovery_result>>
    /\ UNCHANGED history

(***************************************************************************)
(* Termination signals.  stop_gracefully runs between two instructions of  *)
(* the main thread and raises SystemExit there; a bare "except:" around    *)
(* that place catches it.                                                  *)
(***************************************************************************)
\* stop_gracefully: close_driver when there is a webdriver_instance, which
\* stays set
stop_gracefully(d) == IF d.instance # 0 THEN close_driver(d) ELSE d

stop_calls(d) == IF d.instance # 0 THEN <<"close_driver">> ELSE <<>>

\* the "try" of the recovery, whose finally clears the flag and sleeps
RecoveryTryPcs == {"recovery_teardown", "recovery_init", "recovery_login"}

\* a signal has been delivered and SystemExit(0) has left run_scheduler
\* through its finally; d is the session when the handler started
note_signal_exit(h, d) ==
    [h EXCEPT !.signals = @ + 1, !.exit_path = "signal", !.alerted = FALSE,
              !.teardown = (IF d.instance # 0 /\ d.driver # 0 THEN <<"quit">>
                            ELSE <<>>) \o teardown_effects(stop_gracefully(d)),
              !.calls = stop_calls(d) \o shutdown_calls(stop_gracefully(d))]

\* a signal outside every bare "except:": SystemExit(0) passes the
\* "except Exception" handlers, the finally blocks run, the process ends
Signal ==
    /\ pc # "exited"
    /\ history.signals < MaxSignals
    /\ pc' = "exited"
    /\ exit_code' = 0
    /\ SetDriverState(shutdown_environment(stop_gracefully(DriverState)))
    /\ history' = note_signal_exit(history, DriverState)
    /\ recovery_in_progress' = IF pc \in RecoveryTryPcs THEN FALSE
                                ELSE recovery_in_progress
    /\ clock' = IF pc \in RecoveryTryPcs THEN clock + RecoverySleep ELSE clock
    /\ processing_transactions' = IF pc = "fetching" THEN FALSE
                                   ELSE processing_transactions
    /\ UNCHANGED <<current_time, session_start_time, last_health_check,
                   last_transaction_fetch_time, session_active, minutes_left,
                   login_calls, dead_report_time, recovery_result>>

\* a signal during the log_out and time.sleep(2) of the recovery (lines
\* 793-797): the handler quits the browser, "except: pass" catches
\* SystemExit, and the recovery goes on with close_driver and the cleanup
SignalInTeardown ==
    /\ pc = "recovery_teardown"
    /\ webdriver_instance # 0
    /\ history.signals < MaxSignals
    /\ SetDriverState([close_driver(stop_gracefully(DriverState))
                           EXCEPT !.instance = 0])
    /\ clock' = clock + CleanupSleep
    /\ pc' = "recovery_init"
    /\ history' = [history EXCEPT !.signals = @ + 1]
    /\ UNCHANGED <<exit_code, current_time, session_start_time,
                   last_health_check, last_transaction_fetch_time,
                   processing_transactions, recovery_in_progress,
                   session_active, minutes_left, login_calls,
                   dead_report_time, recovery_result>>

\* what log_in_v2 comes back with after a signal was caught by one of its
\* bare "except:" (mb_actions.py:416-418, 445): the browser has quit, and
\* the next driver call outside a try (driver.get, driver.current_url)
\* raises
login_after_signal == [return |-> "raised", terminal |-> FALSE]

\* a signal while log_in_v2 closes popups: the handler quits the browser,
\* the bare "except:" catches SystemExit and log_in_v2 goes on
SignalInLogin ==
    /\ history.signals < MaxSignals
    /\ CASE pc = "initial_login" ->
              \* the exception reaches the outer handler of run_scheduler
              /\ Exit(1, shutdown_environment(stop_gracefully(DriverState)))
              /\ history' = [note_exit(note_login(history, login_after_signal),
                                       "fatal_exception", FALSE,
                                       stop_gracefully(DriverState))
                                EXCEPT !.signals = @ + 1]
              /\ UNCHANGED <<clock, session_start_time, recovery_in_progress,
                             minutes_left, login_calls, recovery_result>>
         [] pc = "recovery_login" ->
              \* "except Exception as recovery_error"
              /\ RecoveryFinally
              /\ login_calls' = count_login(1)
              /\ Exit(1, shutdown_environment(stop_gracefully(DriverState)))
              /\ recovery_result' = "login_raised"
              /\ history' = [note_exit(note_login(history, login_after_signal),
                                       "recovery_aborted", FALSE,
                                       stop_gracefully(DriverState))
                                EXCEPT !.signals = @ + 1]
              /\ UNCHANGED <<session_start_time, minutes_left>>
         [] pc = "restart" ->
              \* restart_session raises into "except Exception as loop_error"
              LET r == restart_session(DriverState, TRUE, login_after_signal,
                                       FALSE, FALSE)
              IN  /\ pc' = "error_wait"
                  /\ minutes_left' = CooldownMinutes
                  /\ login_calls' = count_login(r.logins)
                  /\ SetDriverState(stop_gracefully(r.d))
                  /\ history' = [note_restart(history, "scheduled", r,
                                              login_after_signal)
                                    EXCEPT !.signals = @ + 1]
                  /\ UNCHANGED <<clock, exit_code, session_start_time,
                                 recovery_in_progress, recovery_result>>
         [] pc = "error_recovery" /\ ~recovery_in_progress ->
              \* restart_session raises inside the loop_error handler
              LET r == restart_session(DriverState, TRUE, login_after_signal,
                                       FALSE, FALSE)
              IN  /\ Exit(1, shutdown_environment(stop_gracefully(r.d)))
                  /\ login_calls' = count_login(r.logins)
                  /\ history' = [note_restart_exit(
                                     note_restart(history, "loop_error", r,
                                                  login_after_signal),
                                     "loop_error_recovery", r,
                                     login_after_signal)
                                    EXCEPT !.signals = @ + 1]
                  /\ UNCHANGED <<clock, session_start_time,
                                 recovery_in_progress, minutes_left,
                                 recovery_result>>
         [] OTHER -> FALSE
    /\ UNCHANGED <<current_time, last_health_check,
                   last_transaction_fetch_time, processing_transactions,
                   session_active, dead_report_time>>

InitSchedulerVars ==
    /\ pc = "start"
    /\ exit_code = None
    /\ current_time = 0
    /\ session_start_time = 0
    /\ last_health_check = 0
    /\ last_transaction_fetch_time = None
    /\ webdriver_instance = 0
    /\ driver = 0
    /\ browsers = {}
    /\ page = "none"
    /\ processing_transactions = FALSE
    /\ recovery_in_progress = FALSE
    /\ session_active = FALSE
    /\ minutes_left = 0
    /\ login_calls = 0
    /\ dead_report_time = None
    /\ recovery_result = "none"
    /\ history = InitHistory

(***************************************************************************)
(* Specifications.  Each one runs one component from its initial state and  *)
(* leaves the variables of the others at theirs.                           *)
(***************************************************************************)
InitLoginVars ==
    /\ max_attempts \in 1..MaxLoginAttempts
    /\ portal \in [1..max_attempts -> AttemptOutcomes]
    /\ attempt = 0
    /\ challenges = 0
    /\ login_return = "running"

\* no log_in_v2 call under way
InitLoginIdle ==
    /\ max_attempts = 3
    /\ portal = [i \in 1..3 |-> "success"]
    /\ attempt = 0
    /\ challenges = 0
    /\ login_return = "running"

(***************************************************************************)
(* The write of one batch, step by step, with a crash possible between     *)
(* any two steps.  A file of the data directory is its name (the second    *)
(* of the write), whether its JSON document is whole, and its status.      *)
(***************************************************************************)
\* the batch a write is about to produce
new_batch(now, path) ==
    [name |-> now, whole |-> TRUE,
     status |-> IF path = "empty" THEN "no_transactions" ELSE "success"]

InitSaveVars ==
    writer = [pc |-> "idle", path |-> "empty", now |-> 0, saves |-> 0,
              visible |-> {}, tmp |-> {}, prev |-> {},
              new |-> new_batch(0, "empty"), outcome |-> "none"]

\* the write gives up: the except clauses log and return
save_gives_up == [writer EXCEPT !.pc = "idle", !.outcome = "failed"]

\* a fetch attempt reaches the write of its batch: an empty result is written
\* in fetch_transactions_with_active_session_v2, a list of transactions in
\* save_transactions_to_file; the name is the second of this moment
StartSave(empty, elapsed) ==
    /\ writer.pc = "idle"
    /\ writer.saves < MaxSaves
    /\ LET now == writer.now + elapsed
           path == IF empty THEN "empty" ELSE "full"
       IN  writer' = [writer EXCEPT
                        !.pc = IF empty THEN "open_tmp" ELSE "write_test",
                        !.path = path, !.now = now, !.saves = @ + 1,
                        !.prev = writer.visible,
                        !.new = new_batch(now, path),
                        !.outcome = "writing"]

\* save_transactions_to_file: "Test write permissions" on data/.write_test
WriteTest(ok) ==
    /\ writer.pc = "write_test"
    /\ writer' = IF ok THEN [writer EXCEPT !.pc = "open_tmp"] ELSE save_gives_up

\* a write that opens the batch under its final name
OpenFinalName(ok) ==
    /\ writer.pc = "open_tmp"
    /\ writer' =
           IF ok
           THEN [writer EXCEPT
                   !.pc = "dump",
                   !.visible = {f \in @ : f.name # writer.now}
                               \cup {[writer.new EXCEPT !.whole = FALSE]}]
           ELSE save_gives_up

\* open(filename + ".tmp", "w") creates or truncates the temporary file
OpenTmp(ok) ==
    /\ writer.pc = "open_tmp"
    /\ writer' =
           IF ok
           THEN [writer EXCEPT
                   !.pc = "dump",
                   !.tmp = {t \in @ : t.name # writer.now}
                           \cup {[writer.new EXCEPT !.whole = FALSE]}]
           ELSE save_gives_up

\* json.dump and the close of the temporary file; a failure part of the way
\* leaves the temporary file as it is
Dump(ok) ==
    /\ writer.pc = "dump"
    /\ writer' =
           IF ok
           THEN [writer EXCEPT
                   !.pc = IF writer.path = "empty" THEN "rename"
                          ELSE "check_existing",
                   !.tmp = {IF t.name = writer.now
                            THEN [t EXCEPT !.whole = TRUE] ELSE t : t \in @}]
           ELSE save_gives_up

\* save_transactions_to_file: "if os.path.exists(filename): os.remove(filename)"
CheckExisting ==
    /\ writer.pc = "check_existing"
    /\ writer' =
           IF \E t \in writer.tmp : t.name = writer.now
           THEN [writer EXCEPT !.pc = "rename",
                               !.visible = {f \in @ : f.name # writer.now}]
           ELSE save_gives_up

\* os.rename(filename + ".tmp", filename) puts the temporary file under the
\* name of the batch, in the place of a file of that name
Rename(ok) ==
    /\ writer.pc = "rename"
    /\ writer' =
           IF ok /\ \E t \in writer.tmp : t.name = writer.now
           THEN [writer EXCEPT
                   !.pc = "idle", !.outcome = "saved",
                   !.tmp = {t \in @ : t.name # writer.now},
                   !.visible = {f \in @ : f.name # writer.now}
                               \cup {t \in writer.tmp : t.name = writer.now}]
           ELSE save_gives_up

\* the process dies in the middle of a write and is started again; the
\* files stay as they are, and a start takes at least one login
Crash ==
    /\ writer.pc # "idle"
    /\ writer' = [writer EXCEPT !.pc = "idle", !.outcome = "crashed",
                                !.now = @ + LoginSeconds]

\* the shop accepts every order: each process_woo_transaction call succeeds
orders_accepted == [i \in 1..Len(unique_transactions) |-> "success"]

InitPipeline == InitPipelineVars /\ InitLoginIdle /\ InitSchedulerVars /\ InitSaveVars

NextPipeline ==
    \/ (\E n \in 1..Len(BankRows) : BankPost(n))
           /\ UNCHANGED <<login_vars, scheduler_vars, save_vars>>
    \/ Elapse /\ UNCHANGED <<login_vars, scheduler_vars, save_vars>>
    \/ (\E result \in FetchResults, disk_ok \in BOOLEAN :
            fetch_transactions_with_active_session_v2(result, disk_ok))
           /\ UNCHANGED <<login_vars, scheduler_vars, save_vars>>
    \/ find_unique_transactions_v2 /\ UNCHANGED <<login_vars, scheduler_vars, save_vars>>
    \/ (\E outcomes \in [1..Len(unique_transactions) -> SendResults] :
            push_transactions_to_lark_v2(outcomes))
           /\ UNCHANGED <<login_vars, scheduler_vars, save_vars>>
    \/ process_woocommerce_transactions(orders_accepted)
           /\ UNCHANGED <<login_vars, scheduler_vars, save_vars>>
    \/ cleanup_data_directory /\ UNCHANGED <<login_vars, scheduler_vars, save_vars>>

SpecPipeline == InitPipeline /\ [][NextPipeline]_vars

\* the pipeline with a shop whose calls may succeed, report an error or raise
NextOrders ==
    \/ NextPipeline
    \/ (\E results \in [1..Len(unique_transactions) -> WooResults] :
            process_woocommerce_transactions(results))
           /\ UNCHANGED <<login_vars, scheduler_vars, save_vars>>

SpecOrders == InitPipeline /\ [][NextOrders]_vars

\* the pipeline over a table that also shows rows dated without a time of day
NextWatermark ==
    \/ NextPipeline
    \/ (\E n \in 1..Len(BankRows) : BankPostDateOnly(n))
           /\ UNCHANGED <<login_vars, scheduler_vars, save_vars>>

SpecWatermark == InitPipeline /\ [][NextWatermark]_vars

InitLogin == InitLoginVars /\ InitPipelineVars /\ InitSchedulerVars /\ InitSaveVars

NextLogin ==
    \/ log_in_v2_attempt /\ UNCHANGED <<pipeline_vars, scheduler_vars, save_vars>>
    \/ log_in_v2_exhausted /\ UNCHANGED <<pipeline_vars, scheduler_vars, save_vars>>

SpecLogin == InitLogin /\ [][NextLogin]_vars

Init == InitSchedulerVars /\ InitPipelineVars /\ InitLoginIdle /\ InitSaveVars

Next ==
    \/ (\E created \in BOOLEAN : Startup(created))
           /\ UNCHANGED <<store_vars, login_vars, save_vars>>
    \/ (\E login \in LoginResults : InitialLogin(login))
           /\ UNCHANGED <<store_vars, login_vars, save_vars>>
    \/ LoopTop /\ UNCHANGED <<store_vars, login_vars, save_vars>>
    \/ (\E created, session_valid, alert_sent \in BOOLEAN, login \in LoginResults :
            ScheduledRestart(created, login, session_valid, alert_sent))
           /\ UNCHANGED <<store_vars, login_vars, save_vars>>
    \/ HealthNotDue /\ UNCHANGED <<store_vars, login_vars, save_vars>>
    \/ HealthAlive /\ UNCHANGED <<store_vars, login_vars, save_vars>>
    \/ HealthDead /\ UNCHANGED <<store_vars, login_vars, save_vars>>
    \/ CooldownSleep /\ UNCHANGED <<store_vars, login_vars, save_vars>>
    \/ RecoveryTeardown /\ UNCHANGED <<store_vars, login_vars, save_vars>>
    \/ (\E created \in BOOLEAN : RecoveryInit(created))
           /\ UNCHANGED <<store_vars, login_vars, save_vars>>
    \/ (\E login \in LoginResults : RecoveryLogin(login))
           /\ UNCHANGED <<store_vars, login_vars, save_vars>>
    \/ FetchStart /\ UNCHANGED <<store_vars, login_vars, save_vars>>
    \/ FetchSkip /\ UNCHANGED <<store_vars, login_vars, save_vars>>
    \/ (\E result \in FetchOutcomes : FetchCycle(result))
           /\ UNCHANGED <<store_vars, login_vars, save_vars>>
    \/ LoopSleep /\ UNCHANGED <<store_vars, login_vars, save_vars>>
    \/ ErrorWait /\ UNCHANGED <<store_vars, login_vars, save_vars>>
    \/ (\E created, session_valid, alert_sent \in BOOLEAN, login \in LoginResults :
            ErrorRecovery(created, login, session_valid, alert_sent))
           /\ UNCHANGED <<store_vars, login_vars, save_vars>>
    \/ SessionExpires /\ UNCHANGED <<store_vars, login_vars, save_vars>>

Spec == Init /\ [][Next]_vars

\* run_scheduler with termination signals
NextSignal ==
    \/ Next
    \/ Signal /\ UNCHANGED <<store_vars, login_vars, save_vars>>
    \/ SignalInTeardown /\ UNCHANGED <<store_vars, login_vars, save_vars>>
    \/ SignalInLogin /\ UNCHANGED <<store_vars, login_vars, save_vars>>

SpecSignal == Init /\ [][NextSignal]_vars

\* the steps from a dead report to the end of the recovery: sleeps that end
\* and calls that return
RecoverySteps ==
    \/ CooldownSleep /\ UNCHANGED <<store_vars, login_vars, save_vars>>
    \/ RecoveryTeardown /\ UNCHANGED <<store_vars, login_vars, save_vars>>
    \/ (\E created \in BOOLEAN : RecoveryInit(created))
           /\ UNCHANGED <<store_vars, login_vars, save_vars>>
    \/ (\E login \in LoginResults : RecoveryLogin(login))
           /\ UNCHANGED <<store_vars, login_vars, save_vars>>

\* run_scheduler whose sleeps end and whose driver and login calls return
SpecRecovery == Init /\ [][Next]_vars /\ WF_vars(RecoverySteps)

\* the write of a batch, step by step, with crashes
NextSave ==
    \/ (\E empty \in BOOLEAN, elapsed \in {RetryAfterError, transaction_interval} :
            StartSave(empty, elapsed))
       /\ UNCHANGED <<pipeline_vars, login_vars, scheduler_vars>>
    \/ (\E ok \in BOOLEAN : WriteTest(ok))
       /\ UNCHANGED <<pipeline_vars, login_vars, scheduler_vars>>
    \/ (\E ok \in BOOLEAN : OpenTmp(ok))
       /\ UNCHANGED <<pipeline_vars, login_vars, scheduler_vars>>
    \/ (\E ok \in BOOLEAN : Dump(ok))
       /\ UNCHANGED <<pipeline_vars, login_vars, scheduler_vars>>
    \/ CheckExisting /\ UNCHANGED <<pipeline_vars, login_vars, scheduler_vars>>
    \/ (\E ok \in BOOLEAN : Rename(ok))
       /\ UNCHANGED <<pipeline_vars, login_vars, scheduler_vars>>
    \/ Crash /\ UNCHANGED <<pipeline_vars, login_vars, scheduler_vars>>

SpecSave == Init /\ [][NextSave]_vars

(***************************************************************************)
(* Claims about the fetch cycle (SpecPipeline).                            *)
(***************************************************************************)
ids_of(txns) == {t.id : t \in Range(txns)}

in_find_unique == cycle_pc \in {"push", "woo", "cleanup"}

\* C1: across any sequence of fetch cycles, including cycles that persist an
\* empty batch and prune the older ones, no transaction identifier is accepted
\* by the notification channel or handed to order processing more than once.
\* Stated for the runs in which every batch was written.
C1_NoDuplicateForward ==
    ~save_failed =>
        \A id \in AllIds : lark_delivered[id] <= 1 /\ woo_processed[id] <= 1

C3_FirstRunSelectsAll ==
    (in_find_unique /\ Cardinality(data_files) = 1) =>
        LET batch == newest_file(data_files).transactions
        IN  /\ cycle_pc = "push" => unique_transactions = batch
            /\ unique_transactions \in {batch, Reverse(batch)}

\* C3 witness: a first batch of two transactions is about to be forwarded.
C3_Witness ==
    /\ cycle_pc = "push"
    /\ Cardinality(data_files) = 1
    /\ cycles = 1
    /\ Len(unique_transactions) = 2

\* C4: a transaction whose identifier is empty or not minimally well-formed is
\* in neither the old-identifier set nor the new-transaction list, and is never
\* forwarded to the notification channel or to order processing.
C4_MalformedNeverForwarded ==
    \A id \in AllIds \cup {<<>>} :
        (id = <<>> \/ Len(id) < MinIdLen) =>
            /\ id \notin old_transaction_ids
            /\ id \notin ids_of(unique_transactions)
            /\ id \in AllIds => lark_delivered[id] = 0 /\ woo_processed[id] = 0

(***************************************************************************)
(* Claims about log_in_v2 (SpecLogin).                                     *)
(***************************************************************************)
login_done == login_return # "running"

\* C10: log_in_v2 makes at most max_attempts attempts, each on a newly loaded
\* challenge; it goes on to the next attempt after every transient failure
\* and returns success at the first successful attempt; with two transient
\* failures followed by a success and max_attempts = 3 it returns success
\* after exactly 3 attempts.
C10_LoginRetries ==
    /\ attempt <= max_attempts
    /\ challenges = attempt
    /\ \A i \in 1..attempt : i < attempt => portal[i] \in TransientOutcomes
    /\ login_done =>
          /\ (login_return = "True") =
                (attempt >= 1 /\ portal[attempt] = "success")
          /\ (attempt < max_attempts => portal[attempt] \notin TransientOutcomes)
    /\ (login_done /\ max_attempts = 3
            /\ portal = <<"gw715", "gw715", "success">>) =>
          (login_return = "True" /\ attempt = 3)

\* C10 witness: the portal refused the captcha twice, accepted the third
\* attempt, and log_in_v2 has returned.
C10_Witness ==
    /\ login_done
    /\ max_attempts = 3
    /\ portal = <<"gw715", "gw715", "success">>
    /\ attempt = 3

(***************************************************************************)
(* Claims about run_scheduler, checked under Spec.                         *)
(***************************************************************************)
\* C5: single-flight.  processing_transactions is set exactly while the one
\* fetch/dedup/forward cycle of the loop is in flight, and a cycle starts only
\* from a state in which the flag is clear.
C5_SingleFlight ==
    /\ [](processing_transactions <=> pc = "fetching")
    /\ [][pc' = "fetching" /\ pc # "fetching" => ~processing_transactions]_vars

\* a second cycle is in flight after an earlier one has completed
C5_Witness ==
    /\ pc = "fetching"
    /\ processing_transactions
    /\ clock >= StartMinute * SecondsPerMinute + transaction_interval

\* C6: a fetch cycle starts only in a pass of the loop whose check_session call
\* has just returned a session id, and never during the cooldown or while
\* recovery_in_progress is set.
C6_FetchOnlyWhenAlive ==
    /\ [](pc = "fetching" => session_active /\ ~recovery_in_progress)
    /\ [][pc' = "fetching" /\ pc # "fetching" =>
            /\ pc = "fetch_check"
            /\ check_session(DriverState)
            /\ ~recovery_in_progress]_vars

\* a fetch cycle runs on the session a recovery has brought back
C6_Witness ==
    /\ pc = "fetching"
    /\ session_active
    /\ recovery_result = "recovered"

\* C7: after a dead report the recovery (teardown, driver creation, login)
\* begins no earlier than CooldownMinutes * 60 seconds later, and during the
\* cooldown the driver is not touched and log_in_v2 is not called.
C7_FullCooldown ==
    /\ [](pc \in {"recovery_teardown", "recovery_init", "recovery_login"} =>
            clock - dead_report_time >= CooldownMinutes * SecondsPerMinute)
    /\ [][pc = "cooldown" =>
            UNCHANGED <<webdriver_instance, driver, browsers, login_calls>>]_vars

\* the cooldown is over and the recovery is about to begin
C7_Witness ==
    /\ pc = "recovery_teardown"
    /\ recovery_in_progress
    /\ clock - dead_report_time = CooldownMinutes * SecondsPerMinute

C9_OneRecovery ==
    /\ [](recovery_in_progress <=> recovery_result = "running")
    /\ [](recovery_in_progress => pc \in RecoveryPcs)
    /\ [][recovery_in_progress =>
            UNCHANGED <<last_health_check, dead_report_time>>]_vars

\* a recovery has ended, the flag is clear and the loop runs again
C9_Witness ==
    /\ recovery_result = "recovered"
    /\ ~recovery_in_progress
    /\ pc = "health"

(***************************************************************************)
(* Claims about the failure classes of log_in_v2, checked under SpecLogin. *)
(***************************************************************************)
\* C11: an attempt that ends with a terminal failure (error dialog GW18, or
\* any error dialog other than GW715) is the last attempt of the call, and
\* the call has returned False, whatever the number of attempts remaining.
C11_TerminalStopsAtOnce ==
    \A i \in 1..attempt :
        portal[i] \in TerminalOutcomes => (i = attempt /\ login_return = "False")

\* the account is locked at the first of three attempts and the call is over
C11_Witness ==
    /\ max_attempts = 3
    /\ portal[1] = "gw18"
    /\ attempt = 1
    /\ login_return = "False"

\* the call under way ended on a terminal failure
ended_terminal == attempt >= 1 /\ portal[attempt] \in TerminalOutcomes

\* C12: the failure result tells the terminal class from exhausted transient
\* retries: a failed call that ended on a terminal failure returns a value
\* different from that of any failed call that ran out of attempts, and the
\* other way round.
C12_FailureClassDistinguishable ==
    (login_done /\ login_return = "False") =>
        \A answers \in [1..max_attempts -> AttemptOutcomes] :
            LET other == log_in_v2(answers, max_attempts)
            IN  (other.return \notin {"True", "raised"}
                     /\ other.terminal # ended_terminal)
                    => other.return # login_return

(***************************************************************************)
(* Claims about failure handling in run_scheduler, checked under Spec.     *)
(***************************************************************************)
\* C13: once a log_in_v2 call (initial login, scheduled restart, recovery or
\* loop-error recovery) has returned a terminal failure, log_in_v2 is not
\* called again before the process exits, also when the alert that follows
\* the failure raises.
C13_NoLoginAfterTerminal == history.late_logins = 0

\* the pass of the loop goes on after its scheduled restart
restart_passed == pc = "restart" /\ pc' = "health"

\* the scheduled restart of the pass is over
restart_left == pc = "restart" /\ pc' # "restart"

\* C14 as stated: a pass that starts with the session age at or above the
\* restart interval tears the session down and recreates it, before any fetch
\* of that pass.
C14_RestartAlwaysRecreates ==
    /\ [](pc \in {"health", "fetch_check", "fetching"} =>
            current_time - session_start_time < session_restart_interval)
    /\ [][(pc = "loop_top" /\ pc' # "loop_top"
               /\ clock - session_start_time >= session_restart_interval)
            => pc' = "restart"]_vars
    /\ [][restart_left =>
            /\ history'.last_restart.closed
            /\ history'.last_restart.made
            /\ restart_passed
            /\ page' = "app"
            /\ session_start_time' = clock]_vars

\* C14: a pass that starts with the session age at or above the restart
\* interval tears the session down, healthy or not, before any fetch of that
\* pass.  The session is recreated in that pass when the new driver, the login
\* and the session check succeed; otherwise the pass does not go on to a fetch:
\* the process exits, or takes the loop-error path when the failure raised.
C14_ScheduledRestart ==
    /\ [](pc \in {"health", "fetch_check", "fetching"} =>
            current_time - session_start_time < session_restart_interval)
    /\ [][(pc = "loop_top" /\ pc' # "loop_top"
               /\ clock - session_start_time >= session_restart_interval)
            => pc' = "restart"]_vars
    /\ [][restart_left =>
            /\ history'.last_restart.closed
            /\ restart_passed <=> history'.last_restart.result = "True"
            /\ restart_passed =>
                  /\ history'.last_restart.made
                  /\ page' = "app"
                  /\ session_start_time' = clock
            /\ ~restart_passed => pc' \in {"exited", "error_wait"}]_vars

\* a healthy session has been replaced by the scheduled restart
C14_Witness ==
    /\ pc = "health"
    /\ history.last_restart =
          [from |-> "scheduled", result |-> "True", closed |-> TRUE, made |-> TRUE]
    /\ page = "app"
    /\ session_start_time >=
          StartMinute * SecondsPerMinute + session_restart_interval
    /\ recovery_result = "none"

\* C15: when the restart_session call of the scheduled restart returns
\* failure, the process tears the session down and exits with status 1, and
\* restart_session is not called again.
C15_FailedRestartIsFatal ==
    /\ []((history.last_restart.from = "scheduled"
              /\ history.last_restart.result = "False") =>
            /\ pc = "exited"
            /\ exit_code = 1
            /\ browsers = {}
            /\ webdriver_instance = 0)
    /\ [][history.last_restart.result = "False" => history' = history]_vars

\* the scheduled restart has failed and the process is gone
C15_Witness ==
    /\ history.last_restart.from = "scheduled"
    /\ history.last_restart.result = "False"
    /\ history.last_restart.closed
    /\ pc = "exited"
    /\ exit_code = 1

\* the handler of loop_error has made its restart_session call
error_recovery_left == pc = "error_recovery" /\ pc' # "error_recovery"

\* C16: an exception that leaves the loop body is handled like an expired
\* session: the loop waits CooldownMinutes * 60 seconds, during which the
\* driver is not touched and nobody logs in, then calls restart_session once;
\* on success the loop runs again on the new session, otherwise the process
\* exits with status 1.
C16_LoopErrorRecovery ==
    /\ [](pc \in {"error_wait", "error_recovery"} => history.error_time # None)
    /\ [](pc = "error_recovery" =>
            clock - history.error_time >= CooldownMinutes * SecondsPerMinute)
    /\ [][pc = "error_wait" =>
            /\ UNCHANGED <<webdriver_instance, driver, browsers, login_calls>>
            /\ history' = history]_vars
    /\ [][error_recovery_left =>
            /\ history'.last_restart.from = "loop_error"
            /\ IF history'.last_restart.result = "True"
               THEN /\ pc' = "loop_top"
                    /\ page' = "app"
                    /\ session_start_time' = clock
                    /\ history'.last_restart.made
               ELSE pc' = "exited" /\ exit_code' = 1]_vars

\* the loop runs again after the recovery from a loop error
C16_Witness ==
    /\ pc = "loop_top"
    /\ history.last_restart.from = "loop_error"
    /\ history.last_restart.result = "True"
    /\ page = "app"
    /\ session_start_time = clock

\* C17: a fetch that reports session_expired is handled in a way of its own,
\* not the way a generic fetch error or an empty result is handled, and the
\* pass leaves the session dead for the loop's session checks, so that the
\* cooldown and recovery follow with no fetch in between.
C17_SessionExpiredHandledApart ==
    [][FetchCycle("session_expired") =>
          /\ ~FetchCycle("error")
          /\ ~FetchCycle("none")
          /\ ~check_session(DriverState)']_vars

(***************************************************************************)
(* Claims about the fatal exits of run_scheduler (Spec).                   *)
(***************************************************************************)
\* the ways the process ends on a failure
FatalPaths ==
    {"no_driver", "initial_login", "scheduled_restart", "recovery_failed",
     "recovery_aborted", "loop_error_recovery", "fatal_exception"}

fatal_exit == pc = "exited" /\ history.exit_path \in FatalPaths

\* C18: on every fatal path the full teardown has been performed when the
\* process terminates: the session that was there has been logged out of the
\* portal and then closed, and no browser is left
C18_FullTeardownOnFatalPaths ==
    fatal_exit =>
        /\ browsers = {}
        /\ webdriver_instance = 0
        /\ driver = 0
        /\ history.teardown \in {<<>>, <<"logout", "quit">>}

\* the fatal paths on which the operator is to be told
AlertedPaths ==
    {"initial_login", "scheduled_restart", "recovery_failed",
     "recovery_aborted", "loop_error_recovery"}

\* C19: on every terminal failure path that ends in process exit (initial
\* login failure, scheduled restart failure including a login that succeeded
\* with an invalid session, recovery failure, recovery aborted by an
\* exception, loop-error recovery failure) an alert has been pushed to the
\* notification channel before the process exits
C19_AlertBeforeExit ==
    pc = "exited" /\ history.exit_path \in AlertedPaths => history.alerted

signal_delivered == history'.signals > history.signals

\* C21: a termination signal delivered at any point, also during the
\* cooldown, inside log_in_v2 or inside the recovery teardown, makes the
\* process shut down and exit with status 0; it is never swallowed
C21_SignalExitsZero ==
    [][signal_delivered => pc' = "exited" /\ exit_code' = 0]_vars

\* C22: a termination signal triggers the same teardown as a fatal exit: on
\* the signal route log_out and then close_driver are called on the
\* session that is there, as on every other exit route
C22_SignalSameTeardown ==
    pc = "exited" /\ history.exit_path = "signal" =>
        history.calls \in {<<>>, <<"log_out", "close_driver">>}

(***************************************************************************)
(* Claims about the watermark (SpecPipeline).                              *)
(***************************************************************************)
\* the newest batch holds transactions
newest_has_transactions ==
    data_files # {} /\ newest_file(data_files).transactions # <<>>

\* the latest transaction timestamp of the newest batch
newest_T == latest_transaction_time(newest_file(data_files).transactions)

\* C23 as stated: when the newest batch contains transactions and T is the
\* latest transaction timestamp in it, the watermark of the next fetch is
\* exactly T minus 2 minutes, also when T has a seconds part
C23_WatermarkExact ==
    newest_has_transactions =>
        get_from_date_for_fetch = newest_T - BufferMinutes * SecondsPerMinute

\* C23 amended: the watermark is T minus 2 minutes cut down to the whole
\* minute: it is a whole minute, never later than T minus 2 minutes, less
\* than a minute earlier, and exactly T minus 2 minutes when T has no
\* seconds part
C23_WatermarkToTheMinute ==
    newest_has_transactions =>
        LET exact == newest_T - BufferMinutes * SecondsPerMinute
        IN  /\ (get_from_date_for_fetch % SecondsPerMinute) = 0
            /\ get_from_date_for_fetch <= exact
            /\ exact - get_from_date_for_fetch < SecondsPerMinute
            /\ (newest_T % SecondsPerMinute) = 0 =>
                   get_from_date_for_fetch = exact

\* a batch whose latest transaction has a seconds part has been persisted
\* and the next watermark lies that many seconds before T minus 2 minutes
C23_Witness ==
    /\ cycles >= 1
    /\ newest_has_transactions
    /\ (newest_T % SecondsPerMinute) # 0
    /\ get_from_date_for_fetch =
           (newest_T - BufferMinutes * SecondsPerMinute)
               - (newest_T % SecondsPerMinute)

\* C24: when the newest batch has no transactions the watermark is that
\* batch's own fetch timestamp, to the minute, with no buffer subtracted;
\* when there is no batch at all it is 00:00 of the current day
C24_WatermarkFallbacks ==
    /\ data_files = {} => get_from_date_for_fetch = start_of_day(clock)
    /\ data_files # {} /\ newest_file(data_files).transactions = <<>> =>
           get_from_date_for_fetch =
               strftime_minute(newest_file(data_files).timestamp)

(***************************************************************************)
(* Claims about pruning (SpecPipeline).                                    *)
(***************************************************************************)
\* the batches that a step deletes
deleted_batches == data_files \ data_files'

push_reported_failure ==
    /\ cycle_pc = "push"
    /\ Cardinality(data_files) > 1
    /\ cycle_pc' # "push"
    /\ unique_transactions' # <<>>
    /\ lark_delivered' = lark_delivered

\* C26: a cycle in which the push of the new transactions reports failure
\* does not go on to delete the older batches
C26_NoPruneAfterFailedPush ==
    [][push_reported_failure => cycle_pc' # "cleanup"]_vars

created_batches == data_files' \ data_files

\* C29 as stated: every fetch attempt creates exactly one new batch and
\* leaves the batches there were as they were.
C29_OneBatchPerAttempt ==
    [][cycles' > cycles =>
           /\ Cardinality(created_batches) = 1
           /\ data_files \subseteq data_files']_vars

\* C29: a fetch attempt whose batch can be written creates exactly one new
\* batch, named with the second of the write, a no-transactions marker when
\* the fetch was empty or failed; an attempt whose write fails creates none;
\* and no step puts another document under the name of a batch there is.
C29_OneBatchPerWrittenAttempt ==
    [][/\ \A result \in FetchResults :
              fetch_transactions_with_active_session_v2(result, TRUE) =>
                  /\ Cardinality(created_batches) = 1
                  /\ data_files \subseteq data_files'
                  /\ \A f \in created_batches :
                         /\ f.timestamp = clock
                         /\ \A g \in data_files : g.timestamp # f.timestamp
                         /\ result # "success" => f.status = "no_transactions"
       /\ \A result \in FetchResults :
              fetch_transactions_with_active_session_v2(result, FALSE) =>
                  data_files' = data_files
       /\ \A f \in data_files' :
              (\E g \in data_files : g.timestamp = f.timestamp) =>
                  f \in data_files]_vars

\* a second attempt has added its batch, a no-transactions marker, next to
\* the batch of the first, which held a transaction
C29_Witness ==
    /\ cycles >= 2
    /\ ~save_failed
    /\ cycle_pc = "dedup"
    /\ Cardinality(data_files) = 2
    /\ newest_file(data_files).timestamp = last_cycle_time
    /\ newest_file(data_files).status = "no_transactions"
    /\ \E f \in data_files : f.status = "success"

(***************************************************************************)
(* Claims about forwarding (SpecPipeline).                                 *)
(***************************************************************************)
\* C30: when forwarding one transaction of the list raises, forwarding is
\* still attempted for every other transaction: whatever the channel does
\* with each send, every transaction whose send it would accept is delivered
C30_ForwarderIsolation ==
    [][\A outcomes \in [1..Len(unique_transactions) -> SendResults] :
          push_transactions_to_lark_v2(outcomes) =>
              \A i \in 1..Len(outcomes) :
                  outcomes[i] = "ok" =>
                      lark_delivered'[Reverse(unique_transactions)[i].id]
                          > lark_delivered[Reverse(unique_transactions)[i].id]]_vars

(***************************************************************************)
(* Claims about the write of a batch (SpecSave).                           *)
(***************************************************************************)
\* the files a reader of mb_biz_transactions_*.json finds
visible_batches == writer.visible

is_credit(i) == unique_transactions[i].credit # "0"

\* C31: a failure or an exception of process_woo_transaction for one
\* transaction does not keep the following credit transactions from being
\* processed and does not abort the cycle: whatever the calls give, every
\* credit transaction of the list is handed to process_woo_transaction and
\* the cycle goes on to its cleanup.
C31_OrderIsolation ==
    [][\A results \in [1..Len(unique_transactions) -> WooResults] :
          process_woocommerce_transactions(results) =>
              /\ \A i \in 1..Len(unique_transactions) :
                     is_credit(i) =>
                         /\ woo_processed'[unique_transactions[i].id]
                                > woo_processed[unique_transactions[i].id]
                         /\ woo_results'[i] = results[i]
              /\ cycle_pc' = "cleanup"
              /\ unique_transactions' = unique_transactions]_vars

\* the call for the first transaction raised and the second was processed
C31_Witness ==
    /\ cycle_pc = "cleanup"
    /\ Len(woo_results) = 2
    /\ woo_results[1] = "raise"
    /\ woo_results[2] = "success"
    /\ woo_processed[unique_transactions[2].id] > 0

(***************************************************************************)
(* Claims about what the forwarder reports (SpecPipeline).                 *)
(***************************************************************************)
\* a notification of this step was accepted by the channel
some_send_succeeded == \E id \in AllIds : lark_delivered'[id] > lark_delivered[id]

\* push_transactions_to_lark_v2 returned True: find_unique_transactions_v2
\* goes on to process_woocommerce_transactions
forwarder_returned_success == cycle_pc' = "woo"

\* push_transactions_to_lark_v2 did not return: the exception of a send
\* went through it to the except of find_unique_transactions_v2
forwarder_raised == cycle_pc' = "idle"

\* C32: for a list that is not empty the forwarder returns success exactly
\* when at least one notification was accepted, and a failure of some of
\* the sends is never raised as an error.
C32_SuccessIffOneSent ==
    [][\A outcomes \in [1..Len(unique_transactions) -> SendResults] :
          push_transactions_to_lark_v2(outcomes) =>
              /\ forwarder_returned_success <=> some_send_succeeded
              /\ ~forwarder_raised]_vars

(***************************************************************************)
(* Claims about the order of the notifications (SpecPipeline).             *)
(***************************************************************************)
\* the new transactions of the newest batch, in the order of the batch
new_in_batch_order ==
    SelectSeq(newest_file(data_files).transactions,
              LAMBDA t : is_unique(t, old_transaction_ids))

\* the sends made: all of them, or those up to the one that raised
sends_made(outcomes) ==
    IF first_raise(outcomes, 1) <= Len(outcomes)
    THEN first_raise(outcomes, 1) ELSE Len(outcomes)

\* C33: the notifications of a cycle are sent in the reverse of the order
\* in which the transactions stand in the batch, the oldest first: the
\* sends made are the first ones of the reversed list of new transactions,
\* and no send is for a transaction later than that of the send after it.
C33_OldestFirst ==
    [][\A outcomes \in [1..Len(unique_transactions) -> SendResults] :
          push_transactions_to_lark_v2(outcomes) =>
              /\ unique_transactions = new_in_batch_order
              /\ lark_sent' = SubSeq(Reverse(new_in_batch_order), 1,
                                     sends_made(outcomes))
              /\ \A i, j \in 1..Len(lark_sent') :
                     i < j => lark_sent'[i].ts <= lark_sent'[j].ts]_vars

\* two notifications were sent, the later transaction last
C33_Witness ==
    /\ cycle_pc \in {"woo", "cleanup"}
    /\ Len(lark_sent) = 2
    /\ lark_sent[1].ts < lark_sent[2].ts
    /\ lark_sent = Reverse(new_in_batch_order)

(***************************************************************************)
(* Claims about notification and order processing together (SpecPipeline). *)
(***************************************************************************)
\* process_woo_transaction was called for the transaction at place i
order_attempted(i) == i \in DOMAIN woo_results /\ woo_results[i] # "skip"

\* C34: order processing does not depend on the notifications: when the
\* forwarding of a cycle is over, order creation has been attempted for every
\* new credit transaction, whatever became of the sends, also when every
\* send of the cycle failed.
C34_OrdersIndependentOfNotifications ==
    cycle_pc = "cleanup" =>
        \A i \in 1..Len(unique_transactions) : is_credit(i) => order_attempted(i)

(***************************************************************************)
(* Claims about the cadence of the fetch cycles (Spec).                    *)
(***************************************************************************)
\* this step starts a fetch cycle that is not the first of the run
next_fetch_starts ==
    pc = "fetch_check" /\ pc' = "fetching" /\ history.fetch_start # None

\* seconds since the start of the fetch cycle before
since_last_fetch == clock - history.fetch_start

\* C35 as stated: between the starts of two consecutive fetch cycles at
\* least the fetch interval elapses, also after a cycle that raised.
C35_FetchCadence ==
    [][next_fetch_starts => since_last_fetch >= transaction_interval]_vars

\* C35: between the starts of two consecutive fetch cycles at least the
\* fetch interval elapses, except after a cycle that raised an exception:
\* the cycle after it starts 5 seconds after the exception at the earliest.
C35_FetchCadenceWithRetry ==
    [][next_fetch_starts =>
           /\ ~history.fetch_raised => since_last_fetch >= transaction_interval
           /\ history.fetch_raised => since_last_fetch >= RetryAfterError]_vars

\* a cycle has started 5 seconds after the start of a cycle that raised
C35_Witness ==
    /\ pc = "fetching"
    /\ history.after_raise
    /\ history.fetch_gap = RetryAfterError
    /\ history.fetch_start = clock

(***************************************************************************)
(* Claims about cycles whose batch was not written (SpecPipeline).         *)
(***************************************************************************)
\* the fetch of the cycle under way left no batch: no file carries its second
this_save_failed == \A f \in data_files : f.timestamp # last_cycle_time

\* the only file left is a batch whose transactions were all notified
previous_batch_processed ==
    /\ Cardinality(data_files) = 1
    /\ \A f \in data_files :
           /\ f.transactions # <<>>
           /\ \A t \in Range(f.transactions) : lark_delivered[t.id] > 0

\* this step is the comparison of find_unique_transactions_v2
dedup_step == cycle_pc = "dedup" /\ cycle_pc' # "dedup"

\* C36: when the batch of a cycle could not be written, the dedup step of
\* that cycle forwards nothing: the transactions of the batch of the cycle
\* before, then the only and the newest file, are not selected as new.
C36_NothingForwardedAfterFailedSave ==
    [][dedup_step /\ this_save_failed /\ previous_batch_processed =>
           unique_transactions' = <<>> /\ cycle_pc' # "push"]_vars

(***************************************************************************)
(* Claims about transactions whose notification failed (SpecPipeline).     *)
(***************************************************************************)
\* a transaction with an identifier, in the newest batch, that no
\* notification has been accepted for
unnotified_in_newest(t) ==
    /\ data_files # {}
    /\ t \in Range(newest_file(data_files).transactions)
    /\ strip(t.id) # <<>>
    /\ lark_delivered[t.id] = 0

\* C37: no silent loss: a transaction with a valid identifier whose
\* notification did not succeed in the cycle that first saw it is selected
\* as new again in a later cycle: every dedup step whose newest batch holds
\* a transaction not yet notified selects it.
C37_NoSilentLoss ==
    [][dedup_step =>
           \A t \in UNION {Range(f.transactions) : f \in data_files} :
               unnotified_in_newest(t) =>
                   \E i \in 1..Len(unique_transactions') :
                       unique_transactions'[i] = t]_vars

(***************************************************************************)
(* Claims about the browser sessions (Spec).                               *)
(***************************************************************************)
\* a log_in_v2 call of run_scheduler itself is about to be made
login_about_to_start == pc \in {"initial_login", "recovery_login"}

\* the session handle is a browser just created: nothing loaded, and no
\* other browser on the hub
fresh_session ==
    /\ webdriver_instance # 0
    /\ driver = webdriver_instance
    /\ browsers = {webdriver_instance}
    /\ page = "blank"

\* the last restart_session call made its log_in_v2 call
restart_logged_in == history.last_restart.result \notin {"none", "exit"}

recovered_session ==
    /\ pc \notin RecoveryPcs
    /\ pc # "exited"
    /\ ~recovery_in_progress
    /\ recovery_result = "recovered"

\* this step takes the loop out of the wait or of the recovery
recovery_left == pc \in RecoveryPcs /\ pc' \notin RecoveryPcs

\* C39: after a health check has reported the session dead the loop comes
\* to run on a session newly logged in, its session-age timer set anew, or
\* the process exits; it does not stay in the wait or in the recovery for
\* ever, and it does not go back to the loop on the dead session.
C39_RecoveryEnds ==
    /\ (pc \in RecoveryPcs) ~> (pc = "exited" \/ recovered_session)
    /\ [][recovery_left =>
              \/ pc' = "exited" /\ exit_code' # None
              \/ /\ recovery_result' = "recovered"
                 /\ ~recovery_in_progress'
                 /\ page' = "app"
                 /\ browsers' = {webdriver_instance'}
                 /\ session_start_time' = clock
                 /\ login_calls' = 1]_vars

\* the loop is back after a recovery that logged in
C39_Witness ==
    /\ recovered_session
    /\ dead_report_time # None
    /\ session_start_time >= dead_report_time + CooldownMinutes * SecondsPerMinute
    /\ page = "app"

(***************************************************************************)
(* Claims about the watermark over successive fetches (SpecWatermark).     *)
(***************************************************************************)
\* this step is a fetch: it has used the watermark of the state it starts in
fetch_step == cycle_pc = "idle" /\ cycle_pc' = "dedup"

\* C40: the watermark never moves backwards from one fetch to the next and
\* is never later than the time of the fetch that uses it, whatever the
\* batches are: empty ones and ones whose transactions are dated without a
\* time of day (read as 23:59:59 of that day) included.
C40_WatermarkMonotonicNotFuture ==
    [][fetch_step =>
           /\ get_from_date_for_fetch <= clock
           /\ get_from_date_for_fetch' >= get_from_date_for_fetch]_vars

====
